---- MODULE Spec2Model ----
(***************************************************************************)
(* Model of the delivery optimizer: RouteOptimizer (optimizer.py), the     *)
(* re-optimization trigger (main.py) and the constants of config.py.       *)
(*                                                                         *)
(* RouteOptimizer.solve registers a routing model (arc cost, Capacity and  *)
(* Time dimensions, time windows, one disjunction per stop) and runs the   *)
(* search it configures: first solution PATH_CHEAPEST_ARC, then local      *)
(* search under a 10 s wall-clock limit.  The search state is the current  *)
(* assignment of the routing model: one route (NUM_VEHICLES = 1) and the   *)
(* set of unperformed stops.                                               *)
(*                                                                         *)
(* Matrix entries are floats in the source (seconds, metres).  They are     *)
(* held as integer multiples of 1/Unit, or the value Inf.                  *)
(***************************************************************************)
EXTENDS Integers, Sequences, FiniteSets

\* ---------------------------------------------------------------- bounds
\* stops in the node table
MaxStops == 3
\* stops in the node table while the trigger is exercised
ReoptStops == 2

\* a matrix entry x stands for x / Unit seconds or metres
Unit == 2

\* ------------------------------------------------------------- config.py
\* Weights are floats in the source; they are held as multiples of
\* 1/WeightScale: WEIGHT_TIME = 1.0, WEIGHT_FUEL = 0.5, WEIGHT_PRIORITY = 100.0
WeightScale == 2
WEIGHT_TIME == 2
WEIGHT_FUEL == 1
WEIGHT_PRIORITY == 200
VEHICLE_CAPACITY == 40
NUM_VEHICLES == 1
DEPOT_INDEX == 0
\* REOPTIMIZATION_VARIANCE_THRESHOLD = 0.15, as a fraction ThresholdNum / ThresholdDen
ThresholdNum == 15
ThresholdDen == 100

\* ---------------------------------------------------------- optimizer.py
SLACK_MAX == 1800
HORIZON == 86400
EVEN_START == 1800
EVEN_END == 14400
ODD_START == 3600
ODD_END == 21600
penalty_base == 100000

\* float('inf'), written by get_tomtom_matrix for a cell without routeSummary
Inf == 1000000000

\* ------------------------------------------------------- input alphabets
\* <<demand, priority>> of a stop
StopKinds == {<<10, 1>>, <<30, 3>>, <<41, 2>>}
\* stops lie on a line through the depot (position 0), one metre takes one
\* second; in 1/Unit metres: -5000, -601.5, 1000 and 15001 metres
Positions == {0 - 10000, 0 - 1203, 2000, 30002}
\* ETAs handed to check_reoptimization
PredictedEtas == {0 - 100, 0, 100, 1000}
CurrentEtas == {0 - 120, 84, 85, 110, 115, 116, 120, 1150, 1151}

VARIABLES
    n,              \* len(self.df): number of rows, row 0 is the depot
    demand,         \* self.df['demand']
    priority,       \* self.df['priority']
    dist_matrix,    \* self.dist_matrix
    time_matrix,    \* self.time_matrix
    status,         \* position of the run: new, search, done, raised, printed
    route,          \* current assignment: stops of vehicle 0 in visiting order
    dropped,        \* current assignment: unperformed stops
    objective,      \* objective value of the current assignment
    moves,          \* local-search neighbours accepted so far
    observed,       \* objective values of the solutions the search has held
    solution,       \* self.solution
    printed,        \* what print_solution computed
    current_eta,    \* check_reoptimization arguments and result
    predicted_eta,
    reopt

vars == <<n, demand, priority, dist_matrix, time_matrix, status, route,
          dropped, objective, moves, observed, solution, printed,
          current_eta, predicted_eta, reopt>>

inputVars == <<n, demand, priority, dist_matrix, time_matrix>>
engineVars == <<status, route, dropped, objective, moves, observed, solution,
                printed>>
reoptVars == <<current_eta, predicted_eta, reopt>>

\* self.solution before solve() has returned an Assignment
None == [nextvar |-> <<>>, objective |-> 0]

\* nothing printed yet
NotPrinted == [routes |-> <<>>, dropped_nodes |-> <<>>, objective |-> 0]

Nodes == 0 .. (n - 1)
Stops == 1 .. (n - 1)

Range(s) == {s[k] : k \in 1 .. Len(s)}

Abs(x) == IF x < 0 THEN 0 - x ELSE x

Max(a, b) == IF a >= b THEN a ELSE b

Min(a, b) == IF a <= b THEN a ELSE b

\* Python int() of a quotient num/den (den > 0): truncation towards zero
IntDiv(num, den) == IF num >= 0 THEN num \div den ELSE 0 - ((0 - num) \div den)

\* ------------------------------------------------- callbacks of solve()

\* int(float('inf')) raises OverflowError inside a transit callback
CallbackRaises(from_node, to_node) ==
    \/ time_matrix[from_node][to_node] = Inf
    \/ dist_matrix[from_node][to_node] = Inf

\* return int(self.time_matrix[from_node][to_node])
time_callback(from_node, to_node) == IntDiv(time_matrix[from_node][to_node], Unit)

cost_callback_round(from_node, to_node) ==
    (time_matrix[from_node][to_node] * WEIGHT_TIME
       + dist_matrix[from_node][to_node] * WEIGHT_FUEL
       + (WeightScale * Unit) \div 2) \div (WeightScale * Unit)

\* cost = time_val * WEIGHT_TIME + dist_val * WEIGHT_FUEL; return int(cost)
cost_callback(from_node, to_node) ==
    IntDiv(time_matrix[from_node][to_node] * WEIGHT_TIME
             + dist_matrix[from_node][to_node] * WEIGHT_FUEL, WeightScale * Unit)

\* return int(self.df.iloc[from_node]['demand']); the column holds integers
demand_callback(from_node) == demand[from_node]

\* the window loop: even stops 1800..14400, odd stops 3600..21600
window_start(i) == IF i % 2 = 0 THEN EVEN_START ELSE ODD_START

window_end(i) == IF i % 2 = 0 THEN EVEN_END ELSE ODD_END

\* penalty = int(config.WEIGHT_PRIORITY * p_val * penalty_base)
penalty(i) == IntDiv(WEIGHT_PRIORITY * priority[i] * penalty_base, WeightScale)

\* ------------------------------------------- the registered routing model

\* the nodes a vehicle passes: depot, the stops of the route, depot
Path(r) == <<DEPOT_INDEX>> \o r \o <<DEPOT_INDEX>>

\* "Capacity" dimension: cumul starts at zero, grows by the demand of the
\* node left, has no slack and may not exceed the vehicle capacity
RECURSIVE CapacityCumulOk(_, _, _)
CapacityCumulOk(p, k, cumul) ==
    IF k > Len(p) THEN TRUE
    ELSE LET c == IF k = 1 THEN 0 ELSE cumul + demand_callback(p[k - 1])
         IN  c <= VEHICLE_CAPACITY /\ CapacityCumulOk(p, k + 1, c)

CapacityOk_nocheck(r) == TRUE

CapacityOk(r) == CapacityCumulOk(Path(r), 1, 0)

\* "Time" dimension: cumul(next) = cumul + transit + slack, slack in
\* 0..SLACK_MAX, every cumul in 0..HORIZON, start cumul not fixed, the cumul of
\* stop i set to window_start(i)..window_end(i).  lo..hi is the set of cumul
\* values position k - 1 can take.
RECURSIVE TimeCumulOk(_, _, _, _)
TimeCumulOk(p, k, lo, hi) ==
    IF k > Len(p) THEN TRUE
    ELSE LET t == time_callback(p[k - 1], p[k])
             isEnd == k = Len(p)
             nlo == Max(lo + t, IF isEnd THEN 0 ELSE window_start(p[k]))
             nhi == Min(hi + t + SLACK_MAX,
                        IF isEnd THEN HORIZON ELSE window_end(p[k]))
         IN  nlo <= nhi /\ TimeCumulOk(p, k + 1, nlo, nhi)

TimeOk_nowindow(r) == TRUE

TimeOk(r) == TimeCumulOk(Path(r), 2, 0, HORIZON)

Feasible_caponly(r) == CapacityOk(r)

\* an assignment the routing model accepts
Feasible(r) == CapacityOk(r) /\ TimeOk(r)

RECURSIVE ArcCostSum(_, _)
ArcCostSum(p, k) ==
    IF k >= Len(p) THEN 0
    ELSE cost_callback(p[k], p[k + 1]) + ArcCostSum(p, k + 1)

RECURSIVE PenaltySum(_)
PenaltySum(D) ==
    IF D = {} THEN 0
    ELSE LET d == CHOOSE x \in D : TRUE
         IN  penalty(d) + PenaltySum(D \ {d})

\* objective of the routing model: arc costs of the route plus the penalty
\* of every disjunction whose node is unperformed
ObjectiveValue(r, D) == ArcCostSum(Path(r), 1) + PenaltySum(D)

\* ------------------------------------------------------ search of solve()

Last(r) == IF r = <<>> THEN DEPOT_INDEX ELSE r[Len(r)]

RemoveAt(r, i) == SubSeq(r, 1, i - 1) \o SubSeq(r, i + 1, Len(r))

\* x placed so that j elements of r precede it (0 <= j <= Len(r))
InsertAt(r, j, x) == SubSeq(r, 1, j) \o <<x>> \o SubSeq(r, j + 1, Len(r))

Reverse(r) == [k \in 1 .. Len(r) |-> r[Len(r) + 1 - k]]

\* FirstSolutionStrategy.PATH_CHEAPEST_ARC: from the route start, connect the
\* last node to the unrouted stop with the cheapest arc that keeps the model
\* satisfied and go on from that stop; the tie-break among equally cheap arcs
\* is the library's, so every one of them is a possible outcome.  The result
\* is the set of routes the strategy can end with.
RECURSIVE PathCheapestArc(_)
PathCheapestArc(r) ==
    LET cands == {c \in Stops \ Range(r) : Feasible(Append(r, c))}
        best == {c \in cands :
                   \A d \in cands :
                      cost_callback(Last(r), c) <= cost_callback(Last(r), d)}
    IN  IF cands = {} THEN {r}
        ELSE UNION {PathCheapestArc(Append(r, c)) : c \in best}

\* local search neighbourhoods over an assignment <<route, unperformed>>
Relocate(r, D) ==
    {<<InsertAt(RemoveAt(r, i), j, r[i]), D>> :
        i \in 1 .. Len(r), j \in 0 .. (Len(r) - 1)}

Exchange(r, D) ==
    {<<[r EXCEPT ![i] = r[j], ![j] = r[i]], D>> :
        i \in 1 .. Len(r), j \in 1 .. Len(r)}

TwoOpt(r, D) ==
    {<<SubSeq(r, 1, i - 1) \o Reverse(SubSeq(r, i, j)) \o SubSeq(r, j + 1, Len(r)), D>> :
        i \in 1 .. Len(r), j \in 1 .. Len(r)}

OrOptSegment(r, D, i, len) ==
    LET seg == SubSeq(r, i, i + len - 1)
        rest == SubSeq(r, 1, i - 1) \o SubSeq(r, i + len, Len(r))
    IN  {<<SubSeq(rest, 1, j) \o seg \o SubSeq(rest, j + 1, Len(rest)), D>> :
            j \in 0 .. Len(rest)}

OrOpt(r, D) ==
    UNION {OrOptSegment(r, D, q[1], q[2]) :
             q \in {q \in (1 .. Len(r)) \X (1 .. 3) : q[1] + q[2] - 1 <= Len(r)}}

MakeInactive(r, D) ==
    {<<RemoveAt(r, i), D \cup {r[i]}>> : i \in 1 .. Len(r)}

MakeActive(r, D) ==
    {<<InsertAt(r, j, d), D \ {d}>> : d \in D, j \in 0 .. Len(r)}

SwapActive(r, D) ==
    {<<[r EXCEPT ![i] = d], (D \ {d}) \cup {r[i]}>> : d \in D, i \in 1 .. Len(r)}

Neighbourhood(r, D) ==
    Relocate(r, D) \cup Exchange(r, D) \cup TwoOpt(r, D) \cup OrOpt(r, D)
      \cup MakeInactive(r, D) \cup MakeActive(r, D) \cup SwapActive(r, D)

Improving_worse(r, D) ==
    {m \in Neighbourhood(r, D) :
        Feasible(m[1]) /\ ObjectiveValue(m[1], m[2]) > ObjectiveValue(r, D)}

\* a move is accepted when the routing model accepts the neighbour and the
\* objective goes down
Improving(r, D) ==
    {m \in Neighbourhood(r, D) :
        Feasible(m[1]) /\ ObjectiveValue(m[1], m[2]) < ObjectiveValue(r, D)}

\* the Assignment handed back by SolveWithParameters: NextVar of every index
\* (index i is node i for i < n, index n is the end of vehicle 0; an
\* unperformed index is its own successor) and the objective value
EndIndex == n

NextVars(r, D) ==
    [i \in 0 .. (n - 1) |->
        IF i \in D THEN i
        ELSE IF i = DEPOT_INDEX THEN (IF r = <<>> THEN EndIndex ELSE r[1])
        ELSE LET k == CHOOSE k \in 1 .. Len(r) : r[k] = i
             IN  IF k = Len(r) THEN EndIndex ELSE r[k + 1]]

\* -------------------------------------------------------- print_solution

IndexToNode(index) == IF index = EndIndex THEN DEPOT_INDEX ELSE index

RECURSIVE DroppedNodes_short(_, _)
DroppedNodes_short(nextvar, node) ==
    IF node >= n - 1 THEN <<>>
    ELSE (IF node # DEPOT_INDEX /\ nextvar[node] = node THEN <<node>> ELSE <<>>)
           \o DroppedNodes_short(nextvar, node + 1)

\* for node in range(routing.Size()): skip the start, keep NextVar(node) == node
RECURSIVE DroppedNodes(_, _)
DroppedNodes(nextvar, node) ==
    IF node >= n THEN <<>>
    ELSE (IF node # DEPOT_INDEX /\ nextvar[node] = node THEN <<node>> ELSE <<>>)
           \o DroppedNodes(nextvar, node + 1)

\* while not IsEnd(index): append the node, follow NextVar; then append the end
RECURSIVE RouteSequence(_, _)
RouteSequence(nextvar, index) ==
    IF index = EndIndex THEN <<IndexToNode(index)>>
    ELSE <<IndexToNode(index)>> \o RouteSequence(nextvar, nextvar[index])

\* route_dist / route_time: the raw matrix entries added along the sequence
RECURSIVE MatrixSum(_, _, _)
MatrixSum(matrix, seq, k) ==
    IF k >= Len(seq) THEN 0
    ELSE matrix[seq[k]][seq[k + 1]] + MatrixSum(matrix, seq, k + 1)

PrintedRoutes(sol) ==
    [v \in 1 .. NUM_VEHICLES |->
        LET seq == RouteSequence(sol.nextvar, DEPOT_INDEX)
        IN  [vehicle |-> v - 1,
             sequence |-> seq,
             distance |-> MatrixSum(dist_matrix, seq, 1),
             time |-> MatrixSum(time_matrix, seq, 1)]]

\* ---------------------------------------------------- check_reoptimization

\* variance = abs(current_eta - predicted_eta) / predicted_eta, compared with
\* the threshold as exact fractions (the sign of predicted_eta decides the
\* direction of the cross-multiplied comparison)
check_reoptimization_ge(current, predicted) ==
    IF predicted = 0 THEN FALSE
    ELSE IF predicted > 0
         THEN Abs(current - predicted) * ThresholdDen >= ThresholdNum * predicted
         ELSE Abs(current - predicted) * ThresholdDen <= ThresholdNum * predicted

check_reoptimization(current, predicted) ==
    IF predicted = 0 THEN FALSE
    ELSE IF predicted > 0
         THEN Abs(current - predicted) * ThresholdDen > ThresholdNum * predicted
         ELSE Abs(current - predicted) * ThresholdDen < ThresholdNum * predicted

\* ------------------------------------------------------------------ Init

\* matrix cell for a pair of rows: both matrices hold the distance along the
\* line, or Inf when the provider found no route to or from a row
Cell(pos, unreachable, i, j) ==
    IF i = j THEN 0
    ELSE IF i \in unreachable \/ j \in unreachable THEN Inf
    ELSE Abs(pos[i] - pos[j])

\* RouteOptimizer(df, dist_matrix, time_matrix) just constructed
InitWith(maxStops) ==
    /\ n \in 0 .. (maxStops + 1)
    /\ \E kd \in [Stops -> StopKinds], ps \in [Stops -> Positions],
          un \in {u \in SUBSET Stops : u \subseteq {1}} :
          LET pos == [i \in Nodes |-> IF i = DEPOT_INDEX THEN 0 ELSE ps[i]]
              m == [i \in Nodes |-> [j \in Nodes |-> Cell(pos, un, i, j)]]
          IN  /\ demand = [i \in Nodes |-> IF i = DEPOT_INDEX THEN 0 ELSE kd[i][1]]
              /\ priority = [i \in Nodes |-> IF i = DEPOT_INDEX THEN 0 ELSE kd[i][2]]
              /\ dist_matrix = m
              /\ time_matrix = m
    /\ status = "new"
    /\ route = <<>>
    /\ dropped = {}
    /\ objective = 0
    /\ moves = 0
    /\ observed = {}
    /\ solution = None
    /\ printed = NotPrinted
    /\ current_eta = 0
    /\ predicted_eta = 0
    /\ reopt = FALSE

Init == InitWith(MaxStops)

\* ---------------------------------------------------------------- actions

HasInf == \E i \in Nodes, j \in Nodes : i # j /\ CallbackRaises(i, j)

\* solve() does not return: the index manager has no depot row to start from,
\* or a callback meets an infinite entry
SolveRaises ==
    /\ status = "new"
    /\ (n = 0 \/ HasInf) = TRUE
    /\ status' = "raised"
    /\ UNCHANGED <<inputVars, route, dropped, objective, moves, observed, solution,
                   printed, reoptVars>>

\* the first solution: the cheapest-arc path, every other stop unperformed
FirstSolution ==
    /\ status = "new"
    /\ n > 0 /\ ~HasInf
    /\ \E r \in PathCheapestArc(<<>>) :
          /\ route' = r
          /\ dropped' = Stops \ Range(r)
          /\ objective' = ObjectiveValue(r, Stops \ Range(r))
          /\ observed' = {ObjectiveValue(r, Stops \ Range(r))}
    /\ status' = "search"
    /\ UNCHANGED <<inputVars, moves, solution, printed, reoptVars>>

\* one accepted local-search move
LocalSearchMove ==
    /\ status = "search"
    /\ \E m \in Improving(route, dropped) :
          /\ route' = m[1]
          /\ dropped' = m[2]
          /\ objective' = ObjectiveValue(m[1], m[2])
          /\ observed' = observed \cup {ObjectiveValue(m[1], m[2])}
    /\ moves' = moves + 1
    /\ UNCHANGED <<inputVars, status, solution, printed, reoptVars>>

Returned == [nextvar |-> NextVars(route, dropped), objective |-> objective]

\* no neighbour improves: SolveWithParameters returns the assignment
SearchEnd ==
    /\ status = "search"
    /\ Improving(route, dropped) = {}
    /\ solution' = Returned
    /\ status' = "done"
    /\ UNCHANGED <<inputVars, route, dropped, objective, moves, observed, printed,
                   reoptVars>>

\* time_limit.seconds = 10 runs out while moves remain: the assignment
\* reached so far is returned
TimeLimit ==
    /\ status = "search"
    /\ Improving(route, dropped) # {}
    /\ solution' = Returned
    /\ status' = "done"
    /\ UNCHANGED <<inputVars, route, dropped, objective, moves, observed, printed,
                   reoptVars>>

PrintSolution ==
    /\ status = "done"
    /\ printed' = [routes |-> PrintedRoutes(solution),
                   dropped_nodes |-> DroppedNodes(solution.nextvar, 0),
                   objective |-> solution.objective]
    /\ status' = "printed"
    /\ UNCHANGED <<inputVars, route, dropped, objective, moves, observed, solution,
                   reoptVars>>

CheckReoptimization ==
    /\ \E c \in CurrentEtas, p \in PredictedEtas :
          /\ current_eta' = c
          /\ predicted_eta' = p
          /\ reopt' = check_reoptimization(c, p)
    /\ UNCHANGED <<inputVars, engineVars>>

Next ==
    \/ SolveRaises
    \/ FirstSolution
    \/ LocalSearchMove
    \/ SearchEnd
    \/ TimeLimit
    \/ PrintSolution

Spec == Init /\ [][Next]_vars

\* the run of main with the trigger called at any point
InitReopt == InitWith(ReoptStops)

NextReopt == Next \/ CheckReoptimization

SpecReopt == InitReopt /\ [][NextReopt]_vars

\* solve() and print_solution() run to completion on the one thread of main:
\* a step that can be taken is taken
SpecLive == Init /\ [][Next]_vars /\ WF_vars(Next)

\* ------------------------------------------------------------ properties

\* the run holds a Solution: the first solution is built
SolutionStates == {"search", "done", "printed"}

Count(seq, x) == Cardinality({k \in 1 .. Len(seq) : seq[k] = x})

\* stops of a printed sequence: everything between the two depot entries
Inner(seq) == SubSeq(seq, 2, Len(seq) - 1)

RECURSIVE PrefixLoad(_, _)
PrefixLoad(r, k) == IF k = 0 THEN 0 ELSE PrefixLoad(r, k - 1) + demand[r[k]]

\* arrival at the k-th stop of r: previous cumulative + service (none in this
\* program) + travel time (the whole seconds the Time dimension is given),
\* raised to the earliest bound of the window
RECURSIVE Arrival(_, _)
Arrival(r, k) ==
    IF k = 0 THEN 0
    ELSE LET prev == IF k = 1 THEN DEPOT_INDEX ELSE r[k - 1]
             plain == Arrival(r, k - 1) + IntDiv(time_matrix[prev][r[k]], Unit)
         IN  IF plain >= window_start(r[k]) THEN plain ELSE window_start(r[k])

\* C1 (partition): in every Solution -- the current assignment after the
\* first solution and after every accepted move, the Assignment returned and
\* the printed output -- every stop is in the route exactly once or is
\* dropped, never both and never neither, and the depot is never dropped.
PartitionInvariant ==
    /\ status \in SolutionStates =>
          /\ \A s \in Stops :
                \/ Count(route, s) = 1 /\ s \notin dropped
                \/ Count(route, s) = 0 /\ s \in dropped
          /\ Range(route) \subseteq Stops
          /\ dropped \subseteq Stops
    /\ status \in {"done", "printed"} =>
          LET seq == Inner(RouteSequence(solution.nextvar, DEPOT_INDEX))
          IN  /\ \A s \in Stops :
                    \/ Count(seq, s) = 1 /\ solution.nextvar[s] # s
                    \/ Count(seq, s) = 0 /\ solution.nextvar[s] = s
              /\ solution.nextvar[DEPOT_INDEX] # DEPOT_INDEX
    /\ status = "printed" =>
          LET seq == Inner(printed.routes[1].sequence)
          IN  /\ \A s \in Stops :
                    Count(seq, s) + Count(printed.dropped_nodes, s) = 1
              /\ Count(seq, DEPOT_INDEX) = 0
              /\ Count(printed.dropped_nodes, DEPOT_INDEX) = 0
              /\ Len(seq) + Len(printed.dropped_nodes) = n - 1

\* a printed Solution reached through an accepted move, with routed and
\* dropped stops
PartitionWitness ==
    /\ status = "printed"
    /\ moves > 0
    /\ Len(printed.dropped_nodes) >= 1
    /\ Len(printed.routes[1].sequence) >= 4

\* C2 (capacity): in every Solution the load accumulated along the route,
\* from 0 at the depot, is at most the vehicle capacity at every prefix.
CapacityInvariant ==
    /\ status \in SolutionStates =>
          \A k \in 0 .. Len(route) : PrefixLoad(route, k) <= VEHICLE_CAPACITY
    /\ status = "printed" =>
          LET seq == Inner(printed.routes[1].sequence)
          IN  \A k \in 0 .. Len(seq) : PrefixLoad(seq, k) <= VEHICLE_CAPACITY

\* a Solution after an accepted move whose route is filled to the capacity
\* and leaves out a stop that fits a vehicle but not this route
CapacityWitness ==
    /\ status \in SolutionStates
    /\ moves > 0
    /\ PrefixLoad(route, Len(route)) = VEHICLE_CAPACITY
    /\ \E d \in dropped : demand[d] <= VEHICLE_CAPACITY

\* C3 (window): in every Solution the arrival time at every routed stop,
\* max(previous cumulative + service + travel time, earliest), lies within
\* the window of the stop.
WindowInvariant ==
    status \in SolutionStates =>
       \A k \in 1 .. Len(route) :
          /\ window_start(route[k]) <= Arrival(route, k)
          /\ Arrival(route, k) <= window_end(route[k])

\* a Solution after an accepted move that routes several stops, the first
\* reached only after waiting for its window to open, in an order whose
\* reverse would miss a window
WindowWitness ==
    /\ status \in SolutionStates
    /\ moves > 0
    /\ Len(route) >= 2
    /\ time_matrix[DEPOT_INDEX][route[1]] < Unit * window_start(route[1])
    /\ \E k \in 1 .. Len(route) :
          Arrival(Reverse(route), k) > window_end(Reverse(route)[k])

\* four times the exact cost of the arcs of a path, the cost of an arc being
\* time * W_time + distance * W_fuel = (2 * time entry + distance entry) / 4
RECURSIVE ExactArcCost4(_, _)
ExactArcCost4(p, k) ==
    IF k >= Len(p) THEN 0
    ELSE time_matrix[p[k]][p[k + 1]] * 2 + dist_matrix[p[k]][p[k + 1]]
           + ExactArcCost4(p, k + 1)

\* the cost of the arcs of a path, each arc's cost cut to an integer
RECURSIVE TruncatedArcCost(_, _)
TruncatedArcCost(p, k) ==
    IF k >= Len(p) THEN 0
    ELSE (time_matrix[p[k]][p[k + 1]] * 2 + dist_matrix[p[k]][p[k + 1]]) \div 4
           + TruncatedArcCost(p, k + 1)

\* W_priority * priority * basePenalty over a set of stops
RECURSIVE DropPenalties(_)
DropPenalties(D) ==
    IF D = {} THEN 0
    ELSE LET d == CHOOSE x \in D : TRUE
         IN  100 * priority[d] * 100000 + DropPenalties(D \ {d})

\* C4 as stated (objective identity): the objective value is exactly the sum
\* over the traversed arcs of time * W_time + distance * W_fuel plus the
\* penalties of the dropped stops (both sides times four).
ObjectiveExactIdentity ==
    status \in SolutionStates =>
       4 * objective
          = ExactArcCost4(Path(route), 1) + 4 * DropPenalties(dropped)

\* C4 as amended: the objective value is the sum over the traversed arcs of
\* int(time * W_time + distance * W_fuel), every arc's cost cut to an integer,
\* plus the penalties of the dropped stops; the Assignment returned and the
\* printed objective carry the same value.
ObjectiveTruncatedIdentity ==
    /\ status \in SolutionStates =>
          objective = TruncatedArcCost(Path(route), 1) + DropPenalties(dropped)
    /\ status \in {"done", "printed"} => solution.objective = objective
    /\ status = "printed" => printed.objective = objective

\* a Solution after an accepted move with a dropped stop of a priority above 1 and
\* a route with arcs whose exact cost is not an integer
ObjectiveWitness ==
    /\ status \in SolutionStates
    /\ moves > 0
    /\ \E d \in dropped : priority[d] > 1
    /\ 4 * TruncatedArcCost(Path(route), 1) < ExactArcCost4(Path(route), 1)

\* feasibility as the claims define it: prefix loads within the capacity and
\* arrivals within the windows
Admissible(r) ==
    /\ \A k \in 0 .. Len(r) : PrefixLoad(r, k) <= VEHICLE_CAPACITY
    /\ \A k \in 1 .. Len(r) : Arrival(r, k) <= window_end(r[k])

Without(r, s) == SelectSeq(r, LAMBDA x : x # s)

\* stop s has no admissible position in the current route
NoAdmissiblePosition(s) ==
    \A j \in 0 .. Len(Without(route, s)) :
       ~Admissible(InsertAt(Without(route, s), j, s))

\* C5 (drop instead of fail): in every Solution a stop without any position
\* in the route that respects capacity and windows is in the dropped set and
\* its penalty is part of the objective; and the run ends without a Solution
\* only for an empty node table or an infinite matrix entry, never because a
\* stop cannot be placed.
DropInsteadOfFail ==
    /\ status \in SolutionStates =>
          \A s \in Stops :
             NoAdmissiblePosition(s) =>
                /\ s \in dropped
                /\ objective - TruncatedArcCost(Path(route), 1)
                     - DropPenalties(dropped \ {s})
                     = 100 * priority[s] * 100000
    /\ status = "raised" => (n = 0 \/ HasInf)

\* a Solution returned with a stop dropped because its window is over before
\* a vehicle can reach it and another dropped because it exceeds the capacity
DropWitness ==
    /\ status = "done"
    /\ \E s \in dropped :
          /\ NoAdmissiblePosition(s)
          /\ time_matrix[DEPOT_INDEX][s] > Unit * window_end(s)
    /\ \E s \in dropped : demand[s] > VEHICLE_CAPACITY
    /\ route # <<>>

\* every arc between stop s and another row is infinite
OnlyInfiniteArcs(s) ==
    \A i \in Nodes \ {s} : time_matrix[i][s] = Inf /\ time_matrix[s][i] = Inf

\* C6 as stated (forbidden arcs): with an infinite matrix entry solve() does
\* not raise, no route of a Solution uses an arc whose entry is infinite, and
\* a stop reachable only over infinite arcs is dropped.
InfiniteArcNotAnError ==
    /\ HasInf => status # "raised"
    /\ status \in SolutionStates =>
          /\ \A k \in 1 .. (Len(Path(route)) - 1) :
                ~CallbackRaises(Path(route)[k], Path(route)[k + 1])
          /\ \A s \in Stops : OnlyInfiniteArcs(s) => s \in dropped

\* the inputs C7 calls malformed
Malformed ==
    \/ n = 0
    \/ DOMAIN time_matrix # Nodes \/ DOMAIN dist_matrix # Nodes
    \/ \E i \in Nodes : DOMAIN time_matrix[i] # Nodes \/ DOMAIN dist_matrix[i] # Nodes
    \/ \E i \in Nodes, j \in Nodes :
          time_matrix[i][j] < 0 \/ dist_matrix[i][j] < 0
    \/ \E s \in Stops : demand[s] > VEHICLE_CAPACITY

\* C7 as stated (malformed input fails fast): on a malformed input the run
\* never builds a first solution and never holds a Solution.
MalformedFailsFast ==
    Malformed => (status \in {"new", "raised"} /\ solution = None)

\* C10 (re-optimization trigger): for a predicted ETA other than 0 the
\* result is True exactly when |observed - predicted| / predicted is above
\* 15/100, and a call leaves the inputs and the optimizer as they were.
ReoptimizationTrigger ==
    /\ [](predicted_eta # 0 =>
            (reopt <=> /\ predicted_eta > 0
                       /\ 100 * Abs(current_eta - predicted_eta) > 15 * predicted_eta))
    /\ [][(reopt' # reopt \/ current_eta' # current_eta
             \/ predicted_eta' # predicted_eta)
            => UNCHANGED <<inputVars, engineVars>>]_vars

\* the trigger called after print_solution with a deviation of exactly 15%
ReoptimizationWitness ==
    /\ status = "printed"
    /\ moves > 0
    /\ predicted_eta = 1000
    /\ current_eta = 1150
    /\ reopt = FALSE

\* the Solution decoded from the returned Assignment
ReturnedRoute == Inner(RouteSequence(solution.nextvar, DEPOT_INDEX))

ReturnedDropped == Range(DroppedNodes(solution.nextvar, 0))

\* the returned Solution is feasible, its objective value is the one reported
\* and no Solution the search has held has a smaller one
BestResult ==
    status \in {"done", "printed"} =>
        /\ Feasible(ReturnedRoute)
        /\ solution.objective = ObjectiveValue(ReturnedRoute, ReturnedDropped)
        /\ observed # {}
        /\ \A o \in observed : solution.objective <= o

\* C11 (termination with best result): once the first solution is built the
\* local search stops, either with no improving neighbour left or on the time
\* limit between two moves, and the Solution returned is feasible with an
\* objective value no greater than that of any Solution held during the run,
\* the first solution included.
TerminationWithBest ==
    /\ (status = "search") ~> (status = "done")
    /\ [][(status = "search" /\ status' # "search")
            => /\ status' = "done"
               /\ UNCHANGED <<route, dropped, objective, observed>>
               /\ (Improving(route, dropped) = {} \/ TimeLimit)]_vars
    /\ []BestResult

\* the time limit ends a search that has already left the first solution
\* behind and still has an improving neighbour
TerminationWitness ==
    /\ status = "done"
    /\ moves > 0
    /\ Cardinality(observed) > 1
    /\ Improving(route, dropped) # {}
    /\ solution.objective = ObjectiveValue(route, dropped)
    /\ \E o \in observed : solution.objective < o

====
